---- MODULE Spec2Model ----
(***************************************************************************)
(* Media-inference request pipeline of src/backend.py: POST /detect/image, *)
(* POST /detect/video and GET /video/{video_path}, over a filesystem that  *)
(* every request of every server process shares.                          *)
(*                                                                         *)
(* A request is handled by one server process (worker).  The handlers are  *)
(* `async def` functions: detect_video and get_video contain no `await`,   *)
(* detect_image awaits only the read of the upload, before anything else.  *)
(* So a handler occupies its worker's event loop from its first effect to  *)
(* its return, and no other handler of that worker runs in between.  The   *)
(* process started by the file's __main__ block is one such worker; the    *)
(* app object can be served by several, which then share the working       *)
(* directory.  Requests of different workers interleave at every           *)
(* filesystem call.  The body iterator of a StreamingResponse runs after   *)
(* get_video returned, one chunk per dispatch of the event loop.           *)
(***************************************************************************)
EXTENDS Integers, Sequences, FiniteSets, TLC

(* ------------------------------ bounds -------------------------------- *)
\* requests the model lets arrive
NumReqs == 2
\* server processes serving the app on the shared working directory
NumWorkers == 2
\* distinct values the truncated uuid can take
NumIds == 2
\* largest file of the streaming specification, in whole chunks
MaxChunks == 2

Reqs == 1..NumReqs
Workers == 1..NumWorkers
Ids == 1..NumIds
Free == 0

(* ------------------------------ paths --------------------------------- *)
\* A path is a sequence of segments; a segment is a fixed name, or a name
\* built from a unique_id by an f-string.
Seg(name) == [n |-> name, id |-> 0]
IdSeg(name, id) == [n |-> name, id |-> id]
DotDot == Seg("..")

Root == << >>
\* os.getcwd(): the directory the server was started in
getcwd == <<Seg("srv"), Seg("app")>>

IsUnder(p, d) == Len(p) >= Len(d) /\ SubSeq(p, 1, Len(d)) = d
Parent(p) == IF p = Root THEN Root ELSE SubSeq(p, 1, Len(p) - 1)

\* os.path.join(a, b) for a relative b
PathJoin(a, b) == a \o b

temp_dir == <<Seg("temp_video")>>
input_filename(id) == IdSeg("input_.mp4", id)
temp_video_path(id) == PathJoin(temp_dir, <<input_filename(id)>>)
\* project="runs/detect", name=f"predict_{unique_id}"
project == <<Seg("runs"), Seg("detect")>>
output_dir(id) == PathJoin(project, <<IdSeg("predict_", id)>>)
\* f"runs/detect/predict_{unique_id}/{input_filename[:-4]}.avi"
output_video_path(id) == PathJoin(output_dir(id), <<IdSeg("input_.avi", id)>>)

\* paths a caller of GET /video/{video_path} may send
TraversalPath == <<DotDot, DotDot, Seg("etc"), Seg("passwd")>>
ModelsPath == <<Seg("models")>>
GetPaths == {TraversalPath, ModelsPath} \cup {output_video_path(i) : i \in Ids}

(* --------------------------- file contents ---------------------------- *)
\* A file: whose bytes it holds, what they encode, how many, and the request
\* whose open created it (0: not a request).  A request creates at most one
\* file, so path and creator identify the inode.
Content(owner, media, len, ino) ==
    [owner |-> owner, media |-> media, len |-> len, ino |-> ino]
Bytes(c) == [i \in 1..c.len |-> (c.owner * 31 + i * 7 + c.len) % 256]

\* The declared media type of an upload: the type the endpoint is for, a
\* type it is not for, or "absent" for a request without the file field.
Supported(k) == IF k = "video" THEN "video" ELSE "image"
Medias(k) == {Supported(k), "text", "absent"}
UploadLen(r) == r

VARIABLES
    pc,         \* pc[r]: position of request r in its handler
    kind,       \* kind[r]: "video", "image" or "get"
    media,      \* media[r]: what the upload holds (POST)
    video_path, \* video_path[r]: the path parameter (GET)
    worker,     \* worker[r]: the process serving r
    loop,       \* loop[w]: the request whose handler occupies w's event loop
    unique_id,  \* unique_id[r]; after the return, the id in the response body
    dirs,       \* the directories of the filesystem (absolute paths)
    files,      \* the regular files: absolute path -> content
    resp,       \* resp[r]: what the caller has received
    raised,     \* raised[r]: an exception was raised while serving r
    f,          \* f[r]: the inode of the scratch file r holds open (its creator)
    source,     \* source[r]: the content the detection model is decoding
    fd,         \* fd[r]: the file file_iterator opened
    pos,        \* pos[r]: its read position
    sent        \* sent[r]: the chunks yielded to the caller so far

vars == <<pc, kind, media, video_path, worker, loop, unique_id, dirs, files,
          resp, raised, f, source, fd, pos, sent>>

fsvars == <<dirs, files>>
reqvars == <<kind, media, video_path, worker, f, source>>
streamvars == <<fd, pos, sent>>

(* ----------------------------- filesystem ----------------------------- *)
NoEnt == <<Seg("<ENOENT>")>>

\* Kernel path resolution from directory cur: every component is looked up
\* in an existing directory; ".." steps to the parent.
RECURSIVE Walk(_, _, _)
Walk(ds, cur, segs) ==
    IF segs = << >> THEN cur
    ELSE IF cur \notin ds THEN NoEnt
    ELSE IF Head(segs) = DotDot THEN Walk(ds, Parent(cur), Tail(segs))
    ELSE Walk(ds, Append(cur, Head(segs)), Tail(segs))

\* a relative path as the kernel resolves it for a process in getcwd
Abs(ds, rel) == Walk(ds, Root, PathJoin(getcwd, rel))

Exists(ds, fs, p) == p \in ds \/ p \in DOMAIN fs

Put(fs, p, c) == [q \in DOMAIN fs \cup {p} |-> IF q = p THEN c ELSE fs[q]]
Unlink(fs, p) == [q \in DOMAIN fs \ {p} |-> fs[q]]

\* os.makedirs(d, exist_ok=True)
RECURSIVE Makedirs(_, _)
Makedirs(ds, d) == IF d = Root THEN ds \cup {Root} ELSE Makedirs(ds, Parent(d)) \cup {d}

\* shutil.rmtree(d, ignore_errors=True)
RmtreeDirs(ds, d) == {x \in ds : ~IsUnder(x, d)}
RmtreeFiles(fs, d) == [q \in {x \in DOMAIN fs : ~IsUnder(x, d)} |-> fs[q]]

InitDirs == {Root, <<Seg("etc")>>, <<Seg("srv")>>, getcwd, PathJoin(getcwd, ModelsPath)}
InitFiles ==
    LET passwd == <<Seg("etc"), Seg("passwd")>>
        weights == PathJoin(getcwd, <<Seg("models"), Seg("best.pt")>>)
    IN  [q \in {passwd, weights} |-> Content(0, "system", 1, 0)]


\* open(p, mode): whether it succeeds, and the files it leaves
CanOpen(ds, fs, p, mode) ==
    IF mode = "rb" THEN p \in DOMAIN fs
    ELSE p # NoEnt /\ Parent(p) \in ds /\ p \notin ds
\* "wb" creates the file, or truncates the one that is there
AfterOpen(fs, p, mode, who) ==
    IF mode = "rb" THEN fs
    ELSE Put(fs, p, Content(who, "empty", 0, IF p \in DOMAIN fs THEN fs[p].ino ELSE who))

\* mode of open(temp_video_path, "wb") in detect_video
UploadOpenMode == "wb"
IteratorOpenModeWrite == "wb"
\* mode of open(file_path, 'rb') in file_iterator
IteratorOpenMode == "rb"

\* f.read(n) at position p of a file holding bytes b
FReadOffByOne(b, p, n) ==
    SubSeq(b, p + 1, (IF p + n < Len(b) THEN p + n ELSE Len(b)) - 1)
FRead(b, p, n) == SubSeq(b, p + 1, IF p + n < Len(b) THEN p + n ELSE Len(b))

\* chunk_size=8192
chunk_size == 8192

\* Whether a payload declared as media m decodes as media want: one of
\* the declared type may still be corrupt, one of another type never decodes.
DecodeOutcomes(m, want) == IF m = want THEN {TRUE, FALSE} ELSE {FALSE}

\* the directory detect_video removes after a successful run
CleanupDirWrong == <<Seg("runs")>>
CleanupDir == temp_dir

(* ------------------------------- Init --------------------------------- *)
NoPath == << >>
NoContent == Content(0, "none", 0, 0)

Init ==
    /\ pc = [r \in Reqs |-> "idle"]
    /\ kind = [r \in Reqs |-> "none"]
    /\ media = [r \in Reqs |-> "absent"]
    /\ video_path = [r \in Reqs |-> NoPath]
    /\ worker = [r \in Reqs |-> 1]
    /\ loop = [w \in Workers |-> Free]
    /\ unique_id = [r \in Reqs |-> 0]
    /\ dirs = InitDirs
    /\ files = InitFiles
    /\ resp = [r \in Reqs |-> "none"]
    /\ raised = [r \in Reqs |-> FALSE]
    /\ f = [r \in Reqs |-> 0]
    /\ source = [r \in Reqs |-> NoContent]
    /\ fd = [r \in Reqs |-> NoEnt]
    /\ pos = [r \in Reqs |-> 0]
    /\ sent = [r \in Reqs |-> << >>]

(* ------------------------------ arrival ------------------------------- *)
InFlight(r) == pc[r] \notin {"idle", "done"}

\* The workers a new connection can land on: one that is serving a request,
\* or an idle one.  Idle workers hold no state and are interchangeable, so
\* the lowest stands for all of them.
BusyWorkers == {worker[q] : q \in {x \in Reqs : InFlight(x)}}
LandingWorkers ==
    BusyWorkers \cup {w \in Workers \ BusyWorkers : \A v \in Workers \ BusyWorkers : w <= v}

\* A caller sends a request; the kernel hands the connection to a worker.
Arrive(r) ==
    /\ pc[r] = "idle"
    /\ (r = 1) \/ (r > 1 /\ pc[r - 1] # "idle")
    /\ \E w \in LandingWorkers :
         /\ worker' = [worker EXCEPT ![r] = w]
         /\ \/ \E k \in {"video", "image"} : \E m \in Medias(k) :
                 /\ kind' = [kind EXCEPT ![r] = k]
                 /\ media' = [media EXCEPT ![r] = m]
                 /\ UNCHANGED video_path
            \/ \E p \in GetPaths :
                 /\ kind' = [kind EXCEPT ![r] = "get"]
                 /\ video_path' = [video_path EXCEPT ![r] = p]
                 /\ UNCHANGED media
    /\ pc' = [pc EXCEPT ![r] = "received"]
    /\ UNCHANGED <<loop, unique_id, f, source, fsvars, resp, raised, streamvars>>

\* The handler of r returns (or its response ends) with response x: its
\* locals and the upload are gone, its connection is closed.
Return(r, x, exc, id) ==
    /\ pc' = [pc EXCEPT ![r] = "done"]
    /\ resp' = [resp EXCEPT ![r] = x]
    /\ raised' = [raised EXCEPT ![r] = exc]
    /\ unique_id' = [unique_id EXCEPT ![r] = id]
    /\ media' = [media EXCEPT ![r] = "absent"]
    /\ worker' = [worker EXCEPT ![r] = 1]
    /\ f' = [f EXCEPT ![r] = 0]
    /\ source' = [source EXCEPT ![r] = NoContent]
    /\ video_path' = [video_path EXCEPT ![r] = NoPath]
    /\ UNCHANGED kind

\* ... and the event loop it occupied is free again
ReturnFromHandler(r, x, exc, id) ==
    /\ Return(r, x, exc, id)
    /\ loop' = [loop EXCEPT ![worker[r]] = Free]

\* except Exception as e: return {"error": ...}
Except(r) == ReturnFromHandler(r, "error_json", TRUE, 0)

\* file: UploadFile = File(...): a request without the file never reaches
\* the handler; the framework answers 422 with a JSON body
Validation422(r) ==
    /\ pc[r] = "received"
    /\ kind[r] \in {"video", "image"}
    /\ media[r] = "absent"
    /\ loop[worker[r]] = Free
    /\ Return(r, "validation_422", FALSE, 0)
    /\ UNCHANGED <<loop, fsvars, streamvars>>

(* --------------------------- POST /detect/image ----------------------- *)
\* contents = await file.read(); image = Image.open(io.BytesIO(contents));
\* then yolo_model(image) is entered
StartImage(r) ==
    /\ pc[r] = "received"
    /\ kind[r] = "image"
    /\ media[r] # "absent"
    /\ loop[worker[r]] = Free
    /\ \E ok \in DecodeOutcomes(media[r], "image") :
         IF ok
         THEN /\ pc' = [pc EXCEPT ![r] = "inferring_image"]
              /\ loop' = [loop EXCEPT ![worker[r]] = r]
              /\ UNCHANGED <<reqvars, unique_id, resp, raised>>
         ELSE Except(r)
    /\ UNCHANGED <<fsvars, streamvars>>

\* results = yolo_model(image) returns;
\* return {"detections": ..., "total_detections": ...}
InferImage(r) ==
    /\ pc[r] = "inferring_image"
    /\ ReturnFromHandler(r, "ok_json", FALSE, 0)
    /\ UNCHANGED <<fsvars, streamvars>>

(* --------------------------- POST /detect/video ----------------------- *)
\* the handler starts: os.makedirs(temp_dir, exist_ok=True)
StartVideo(r) ==
    /\ pc[r] = "received"
    /\ kind[r] = "video"
    /\ media[r] # "absent"
    /\ loop[worker[r]] = Free
    /\ loop' = [loop EXCEPT ![worker[r]] = r]
    /\ dirs' = Makedirs(dirs, PathJoin(getcwd, temp_dir))
    /\ pc' = [pc EXCEPT ![r] = "open"]
    /\ UNCHANGED <<reqvars, unique_id, files, resp, raised, streamvars>>

\* unique_id = str(uuid.uuid4())[:8]; open(temp_video_path, "wb")
OpenScratch(r) ==
    /\ pc[r] = "open"
    /\ \E id \in Ids :
         LET p == Abs(dirs, temp_video_path(id)) IN
         IF CanOpen(dirs, files, p, UploadOpenMode)
         THEN /\ files' = AfterOpen(files, p, UploadOpenMode, r)
              /\ f' = [f EXCEPT ![r] = files'[p].ino]
              /\ unique_id' = [unique_id EXCEPT ![r] = id]
              /\ pc' = [pc EXCEPT ![r] = "copy"]
              /\ UNCHANGED <<kind, media, video_path, worker, source, resp, raised, loop>>
         ELSE /\ Except(r)
              /\ UNCHANGED files
    /\ UNCHANGED <<dirs, streamvars>>

\* shutil.copyfileobj(file.file, f), and the close of f; the write may fail
\* (no space left on the device).  If the file was unlinked meanwhile the
\* bytes go to an inode no path names.
CopyUpload(r) ==
    /\ pc[r] = "copy"
    /\ LET p == PathJoin(getcwd, temp_video_path(unique_id[r])) IN
       \E ok \in BOOLEAN :
         IF ok
         THEN /\ files' = IF p \in DOMAIN files /\ files[p].ino = f[r]
                          THEN Put(files, p, Content(r, media[r], UploadLen(r), f[r]))
                          ELSE files
              /\ pc' = [pc EXCEPT ![r] = "predict"]
              /\ UNCHANGED <<reqvars, unique_id, resp, raised, loop>>
         ELSE /\ Except(r)
              /\ UNCHANGED files
    /\ UNCHANGED <<dirs, streamvars>>

\* results = yolo_model.predict(source=temp_video_path, save=True,
\*     project="runs/detect", name=f"predict_{unique_id}", exist_ok=True)
\* is entered: the model opens the source and starts decoding it
Predict(r) ==
    /\ pc[r] = "predict"
    /\ LET src == Abs(dirs, temp_video_path(unique_id[r])) IN
       IF src \in DOMAIN files
       THEN \E ok \in DecodeOutcomes(files[src].media, "video") :
              IF ok
              THEN /\ source' = [source EXCEPT ![r] = files[src]]
                   /\ pc' = [pc EXCEPT ![r] = "inferring"]
                   /\ UNCHANGED <<kind, media, video_path, worker, f, unique_id,
                                  resp, raised, loop>>
              ELSE Except(r)
       ELSE Except(r)
    /\ UNCHANGED <<fsvars, streamvars>>

\* ... and returns: the annotated video is saved under the project directory
PredictDone(r) ==
    /\ pc[r] = "inferring"
    /\ LET out == PathJoin(getcwd, output_video_path(unique_id[r])) IN
       /\ dirs' = Makedirs(dirs, Parent(out))
       /\ files' = Put(files, out, Content(source[r].owner, "avi", source[r].len, 0))
    /\ pc' = [pc EXCEPT ![r] = "remove"]
    /\ UNCHANGED <<reqvars, unique_id, resp, raised, loop, streamvars>>

\* os.remove(temp_video_path)
RemoveScratch(r) ==
    /\ pc[r] = "remove"
    /\ LET p == Abs(dirs, temp_video_path(unique_id[r])) IN
       IF p \in DOMAIN files
       THEN /\ files' = Unlink(files, p)
            /\ pc' = [pc EXCEPT ![r] = "rmtree"]
            /\ UNCHANGED <<reqvars, unique_id, resp, raised, loop>>
       ELSE /\ Except(r)
            /\ UNCHANGED files
    /\ UNCHANGED <<dirs, streamvars>>

\* shutil.rmtree(temp_dir, ignore_errors=True); return {"message": ...,
\*     "output_video_path": ..., "total_frames": ...}
RmtreeAndReturn(r) ==
    /\ pc[r] = "rmtree"
    /\ dirs' = RmtreeDirs(dirs, PathJoin(getcwd, CleanupDir))
    /\ files' = RmtreeFiles(files, PathJoin(getcwd, CleanupDir))
    /\ ReturnFromHandler(r, "ok_json", FALSE, unique_id[r])
    /\ UNCHANGED streamvars

(* ------------------------- GET /video/{video_path} -------------------- *)
\* full_path = os.path.join(os.getcwd(), video_path)
full_path(r) == PathJoin(getcwd, video_path[r])

\* the handler: the os.path.exists test, then the StreamingResponse object
GetVideo(r) ==
    /\ pc[r] = "received"
    /\ kind[r] = "get"
    /\ loop[worker[r]] = Free
    /\ IF ~Exists(dirs, files, Walk(dirs, Root, full_path(r)))
       THEN Return(r, "error_json", FALSE, 0)
       ELSE /\ pc' = [pc EXCEPT ![r] = "stream_open"]
            /\ UNCHANGED <<reqvars, unique_id, resp, raised>>
    /\ UNCHANGED <<loop, fsvars, streamvars>>

\* The response starts (status 200 and headers are sent), then the first
\* next() of file_iterator runs open(file_path, 'rb').  An exception here is
\* raised outside get_video's try block, after the response began.
StreamOpen(r) ==
    /\ pc[r] = "stream_open"
    /\ loop[worker[r]] = Free
    /\ LET p == Walk(dirs, Root, full_path(r)) IN
       IF CanOpen(dirs, files, p, IteratorOpenMode)
       THEN /\ files' = AfterOpen(files, p, IteratorOpenMode, r)
            /\ fd' = [fd EXCEPT ![r] = p]
            /\ pc' = [pc EXCEPT ![r] = "stream_read"]
            /\ resp' = [resp EXCEPT ![r] = "streaming"]
            /\ UNCHANGED <<reqvars, unique_id, raised>>
       ELSE /\ Return(r, "truncated", TRUE, 0)
            /\ UNCHANGED <<files, fd>>
    /\ UNCHANGED <<loop, dirs, pos, sent>>

\* chunk = f.read(chunk_size); if not chunk: break; yield chunk
StreamRead(r) ==
    /\ pc[r] = "stream_read"
    /\ loop[worker[r]] = Free
    /\ LET chunk == FRead(Bytes(files[fd[r]]), pos[r], chunk_size) IN
       IF chunk = << >>
       THEN /\ Return(r, "stream_complete", FALSE, 0)
            /\ UNCHANGED <<fd, pos, sent>>
       ELSE /\ sent' = [sent EXCEPT ![r] = Append(@, chunk)]
            /\ pos' = [pos EXCEPT ![r] = @ + Len(chunk)]
            /\ UNCHANGED <<pc, reqvars, unique_id, resp, raised, fd>>
    /\ UNCHANGED <<loop, fsvars>>

\* the caller disconnects mid-stream: the generator is closed, the `with`
\* block closes the file
Disconnect(r) ==
    /\ pc[r] = "stream_read"
    /\ Return(r, "stream_aborted", FALSE, 0)
    /\ UNCHANGED <<loop, fsvars, streamvars>>

(* ------------------------------- Next --------------------------------- *)
Dispatch(r) == Validation422(r) \/ StartImage(r) \/ StartVideo(r) \/ GetVideo(r)

Next ==
    \E r \in Reqs :
      \/ Arrive(r)
      \/ Validation422(r)
      \/ StartImage(r)
      \/ InferImage(r)
      \/ StartVideo(r)
      \/ OpenScratch(r)
      \/ CopyUpload(r)
      \/ Predict(r)
      \/ PredictDone(r)
      \/ RemoveScratch(r)
      \/ RmtreeAndReturn(r)
      \/ GetVideo(r)
      \/ StreamOpen(r)
      \/ StreamRead(r)
      \/ Disconnect(r)

Spec == Init /\ [][Next]_vars


(* ---------------------- the streaming specification ------------------- *)
\* File sizes around the multiples of the chunk size.
StreamLens ==
    {n \in {k * chunk_size + d : k \in 0..MaxChunks, d \in {-1, 0, 1}} : n >= 0}

\* One output artifact of some size and content is on disk, left by an
\* earlier video request; a caller fetches it, or a path that is not there.
InitStream ==
    /\ pc = [r \in Reqs |-> IF r = 1 THEN "received" ELSE "idle"]
    /\ kind = [r \in Reqs |-> IF r = 1 THEN "get" ELSE "none"]
    /\ media = [r \in Reqs |-> "absent"]
    /\ video_path \in {[r \in Reqs |-> IF r = 1 THEN output_video_path(i) ELSE NoPath] :
                         i \in Ids}
    /\ worker = [r \in Reqs |-> 1]
    /\ loop = [w \in Workers |-> Free]
    /\ unique_id = [r \in Reqs |-> 0]
    /\ dirs = Makedirs(InitDirs, PathJoin(getcwd, output_dir(1)))
    /\ \E n \in StreamLens, o \in Reqs :
         files = Put(InitFiles, PathJoin(getcwd, output_video_path(1)), Content(o, "avi", n, 0))
    /\ resp = [r \in Reqs |-> "none"]
    /\ raised = [r \in Reqs |-> FALSE]
    /\ f = [r \in Reqs |-> 0]
    /\ source = [r \in Reqs |-> NoContent]
    /\ fd = [r \in Reqs |-> NoEnt]
    /\ pos = [r \in Reqs |-> 0]
    /\ sent = [r \in Reqs |-> << >>]

NextStream ==
    \E r \in Reqs :
      \/ GetVideo(r)
      \/ StreamOpen(r)
      \/ StreamRead(r)
      \/ Disconnect(r)

SpecStream == InitStream /\ [][NextStream]_vars


(* ======================= the claims, C1 to C10 ======================== *)
\* stages of the request state machine, read off the handler's position
Materializing(r) == kind[r] = "video" /\ pc[r] \in {"open", "copy", "predict"}
Inferring(r) == pc[r] \in {"inferring", "inferring_image"}
Releasing(r) == pc[r] \in {"remove", "rmtree"}
\* r has derived its identifier and created its scratch file
Allocated(r) == kind[r] = "video" /\ pc[r] \in {"copy", "predict", "inferring", "remove", "rmtree"}
\* r has asked the filesystem for something
Touched(r) == Materializing(r) \/ (kind[r] = "video" /\ (Inferring(r) \/ Releasing(r)))

\* the directory a video request creates for its scratch input and removes
\* recursively when it releases, and the one its output goes to
ScratchNamespace(r) == temp_dir
OutputNamespace(r) == output_dir(unique_id[r])
ScratchFile(r) == PathJoin(getcwd, temp_video_path(unique_id[r]))
OutputFile(r) == PathJoin(getcwd, output_video_path(unique_id[r]))
Disjoint(a, b) == ~IsUnder(a, b) /\ ~IsUnder(b, a)

\* C1: two video requests in flight at the same time have different
\* identifiers, and the scratch and output directories of one are neither
\* equal to nor inside a directory of the other.
C1_NamespacesDisjoint ==
    \A r \in Reqs : \A q \in Reqs \ {r} :
      Allocated(r) /\ Allocated(q) =>
        /\ unique_id[r] # unique_id[q]
        /\ \A a \in {ScratchNamespace(r), OutputNamespace(r), temp_video_path(unique_id[r])} :
             \A b \in {ScratchNamespace(q), OutputNamespace(q)} : Disjoint(a, b)

\* C2: the release step of a request (os.remove, shutil.rmtree) never removes
\* the scratch file of another request, of a different identifier, that is
\* still Materializing or Inferring.
C2_ReleaseSparesOthers ==
    [][\A r \in Reqs : \A q \in Reqs \ {r} :
         (/\ Releasing(r) /\ pc'[r] # pc[r]
          /\ Allocated(q) /\ ~Releasing(q)
          /\ unique_id[q] # unique_id[r]
          /\ ScratchFile(q) \in DOMAIN files)
         => ScratchFile(q) \in DOMAIN files']_vars

\* C3: GET /video never opens or streams a file outside the managed root
\* (the server's working directory), whatever path the caller sends.
C3_NoPathEscape ==
    \A r \in Reqs :
      (kind[r] = "get" /\ (fd[r] # NoEnt \/ sent[r] # << >>)) => IsUnder(fd[r], getcwd)

\* C4: a video request that fails after its scratch file was created answers
\* {error: ...}, and its scratch file is gone when it finishes.
C4_ReleaseOnFailure ==
    [][\A r \in Reqs :
         (Allocated(r) /\ pc'[r] = "done" /\ raised'[r])
         => /\ resp'[r] = "error_json"
            /\ ~(ScratchFile(r) \in DOMAIN files' /\ files'[ScratchFile(r)].ino = f[r])]_vars

C5_Succeeded(r) == kind[r] = "video" /\ pc[r] = "done" /\ resp[r] = "ok_json"
\* no file at r's scratch path was created by r or holds r's upload
C5_ScratchGone(r) ==
    ~(/\ ScratchFile(r) \in DOMAIN files
      /\ (files[ScratchFile(r)].ino = r \/ files[ScratchFile(r)].owner = r))
C5_StateAfterSuccess ==
    \A r \in Reqs :
      C5_Succeeded(r) =>
        /\ C5_ScratchGone(r)
        /\ PathJoin(getcwd, OutputNamespace(r)) \in dirs
        /\ OutputFile(r) \in DOMAIN files
C5_OutputsKept ==
    \A p \in DOMAIN files :
      IsUnder(p, PathJoin(getcwd, project)) => p \in DOMAIN files'
\* C5: after a video request succeeded, the scratch input it wrote is not on
\* disk while its output directory and output file are; and no step, release
\* included, ever removes a file under the output project directory.
C5_OutputSurvivesRelease == [](C5_StateAfterSuccess) /\ [][C5_OutputsKept]_vars
C5_Witness ==
    \E r \in Reqs : \E q \in Reqs \ {r} :
      /\ C5_Succeeded(r) /\ C5_Succeeded(q)
      /\ unique_id[r] # unique_id[q]
      /\ PathJoin(getcwd, temp_dir) \notin dirs

StructuredErrors == {"error_json", "validation_422"}
WellFormed == StructuredErrors \cup {"ok_json", "stream_complete", "stream_aborted"}
\* C6: every failure is answered with a structured error body: no exception
\* escapes a handler, no response ends empty or truncated.
C6_StructuredErrorAlways ==
    \A r \in Reqs :
      /\ raised[r] => resp[r] \in StructuredErrors
      /\ pc[r] = "done" => resp[r] \in WellFormed

\* C7: a media request whose payload is absent or of a type its endpoint is
\* not for never gets a scratch directory or file and never reaches the
\* detection model.
C7_RejectedBeforeStore ==
    \A r \in Reqs :
      (InFlight(r) /\ kind[r] \in {"video", "image"} /\ media[r] # Supported(kind[r]))
      => ~Touched(r) /\ ~Inferring(r)

RECURSIVE Concat(_)
Concat(chunks) == IF chunks = << >> THEN << >> ELSE Head(chunks) \o Concat(Tail(chunks))
\* C8: the chunks file_iterator yields are non-empty, at most chunk_size
\* long, and concatenate to the bytes read so far; when the stream ends they
\* concatenate to the whole file.
C8_ChunksReproduceFile ==
    \A r \in Reqs :
      fd[r] # NoEnt =>
        LET b == Bytes(files[fd[r]]) IN
        /\ \A i \in 1..Len(sent[r]) : Len(sent[r][i]) \in 1..chunk_size
        /\ Concat(sent[r]) = SubSeq(b, 1, pos[r])
        /\ resp[r] = "stream_complete" => Concat(sent[r]) = b
C8_Witness ==
    \E r \in Reqs :
      /\ resp[r] = "stream_complete"
      /\ Len(sent[r]) >= 2
      /\ Len(sent[r][Len(sent[r])]) \in 1..(chunk_size - 1)
      /\ Concat(sent[r]) = Bytes(files[fd[r]])

C9_FetchStep(r) == kind[r] = "get" /\ (pc'[r] # pc[r] \/ sent'[r] # sent[r])
\* C9: no step of a GET /video request (the handler, the open, a chunk, the
\* end, a disconnect) changes a directory or a file or starts the detection
\* model.
C9_FetchChangesNothing ==
    [][\A r \in Reqs :
         C9_FetchStep(r) =>
           /\ dirs' = dirs
           /\ files' = files
           /\ \A q \in Reqs : Inferring(q)' => Inferring(q)]_vars
C9_Witness ==
    \E r \in Reqs : \E q \in Reqs \ {r} :
      /\ kind[r] = "get" /\ resp[r] = "stream_aborted" /\ sent[r] # << >>
      /\ C5_Succeeded(q) /\ fd[r] = OutputFile(q)
      /\ fd[r] \in DOMAIN files

\* C10: while a video request is inside the detection model, every other
\* request that has arrived can be taken up by its handler.
C10_InferenceBlocksNobody ==
    \A r \in Reqs : \A q \in Reqs \ {r} :
      (kind[r] = "video" /\ Inferring(r) /\ pc[q] = "received") => ENABLED Dispatch(q)

====
